---- MODULE Spec2Model ----
(***************************************************************************)
(* A model of generate-samples.py: a generator of a bank of sine-tone WAV  *)
(* samples, one file per (MIDI note, velocity tier, sample rate).          *)
(*                                                                         *)
(* Numbers.  The program computes in binary floating point; the model uses *)
(* fixed point integers that stay below 2^31:                              *)
(*   duration   tenths of a second       (5.0 s  is 50)                    *)
(*   frequency  tenths of a hertz        (440 Hz is 4400)                  *)
(*   amplitude  thousandths              (1.0    is 1000)                  *)
(*   decibels   hundredths of a decibel  (-30 dB is -3000)                 *)
(*   phase      thousandths of a turn                                      *)
(* A path is the pair <<directory, file name>>: os.path.join is modelled   *)
(* as pairing.  File names are strings built by concatenation.  The file   *)
(* system maps each directory that exists to its files, by name; the names *)
(* of a directory are grouped by their first four characters.              *)
(***************************************************************************)
EXTENDS Integers, Sequences, FiniteSets, TLC

VARIABLES
    args_output_dir,  \* argparse's args.output_dir: <<>> is None, <<s>> the string s
    platform_system,  \* what platform.system() returns on this machine
    fs,               \* the file system: directory -> (stem -> (file name -> content))
    pc,               \* main()'s position
    output_dir,       \* main(): output_dir
    midi_note,        \* main(): loop variable of line 82
    vel,              \* main(): loop variable of line 86
    rate_idx,         \* main(): position of sample_rate in sample_rates (line 91)
    filepath,         \* main(): filepath, <<>> before the first file
    open_files,       \* paths held open for writing by a Wave_write object
    num_opened,       \* number of files opened for writing in this run
    stdout,           \* the lines printed in this run, in order
    runs,             \* completed invocations of the program before this one
    wav_in,           \* save_wav_file called alone: its arguments
    wav_out,          \* save_wav_file called alone: the file written, <<>> before
    sine_in,          \* generate_sine_wave called alone: its arguments
    sine_out          \* generate_sine_wave called alone: <<result>>, <<>> before

mainVars == <<args_output_dir, platform_system, fs, pc, output_dir, midi_note, vel,
              rate_idx, filepath, open_files, num_opened, stdout, runs>>
unitVars == <<wav_in, wav_out, sine_in, sine_out>>
vars == <<mainVars, unitVars>>

----------------------------------------------------------------------------
(* Bounds of the model.                                                    *)

\* Invocations of the program against the same file system.
MaxRuns == 2
\* Frames of a file's data kept in the file system; the declared size is exact.
MaxStored == 2
\* Longest sample sequence handed to save_wav_file when called alone.
MaxDataLen == 4
\* Longest duration, in tenths of a second, of generate_sine_wave called alone.
MaxTenths == 12

----------------------------------------------------------------------------
(* Arithmetic helpers.                                                     *)

\* Python's int(x) of a float and numpy's float -> integer cast: toward zero.
TruncDiv(a, b) == IF a >= 0 THEN a \div b ELSE -((-a) \div b)

RECURSIVE Pow2(_)
Pow2(n) == IF n <= 0 THEN 1 ELSE 2 * Pow2(n - 1)

\* 2^(k/12) for k in 0..11, times 10000.
Semitone == <<10000, 10595, 11225, 11892, 12599, 13348, 14142, 14983, 15874, 16818,
              17818, 18877>>

\* midi_to_freq (line 13): 440.0 * 2 ** ((midi_note - 69) / 12.0), in tenths of a hertz.
midi_to_freq(note) ==
    LET k == (note - 69) % 12
        o == ((note - 69) - k) \div 12
    IN  IF o >= 0 THEN (4400 * Semitone[k + 1] * Pow2(o)) \div 10000
                  ELSE ((4400 * Semitone[k + 1]) \div Pow2(-o)) \div 10000

\* np.linspace(-30, -6, 8)[v] (line 80), in hundredths of a decibel.
db_levels(v) == -3000 + TruncDiv(v * 2400, 7)

\* db_to_amp (line 20): 10 ** (db / 20.0), in thousandths, tabulated at the eight
\* levels of db_levels; 0 dB and -20 dB are the docstring's reference points.
db_to_amp(db) ==
    CASE db = -3000 -> 32
      [] db = -2658 -> 47
      [] db = -2315 -> 70
      [] db = -1972 -> 103
      [] db = -1629 -> 153
      [] db = -1286 -> 228
      [] db = -943  -> 338
      [] db = -600  -> 501
      [] db = -2000 -> 100
      [] db = 0     -> 1000

\* np.sin(2 * pi * x) for x in thousandths of a turn, times 1000 (Bhaskara's
\* rational approximation of the half wave, odd symmetry for the other half).
Sin1000(phase) ==
    LET p == phase % 1000
        u == (2 * p) % 1000
        w == u * (1000 - u)
        h == (4 * w) \div ((5000000 - 4 * w) \div 4000)
    IN  IF p < 500 THEN h ELSE -h

----------------------------------------------------------------------------
(* generate_sine_wave (lines 22-37).                                       *)

\* int(sample_rate * duration) (line 31): the number of mono samples.
num_samples(sample_rate, duration) == TruncDiv(sample_rate * duration, 10)

\* Lines 31-34 at index i (from 0): t[i] = i * duration / num (linspace without its
\* endpoint), amplitude * sin(2 pi frequency t[i]), then np.int16(... * 32767).
\* The cast is in range for amplitude <= 1.0, the documented domain.
sample_int(sample_rate, duration, frequency, amplitude, i) ==
    LET num   == num_samples(sample_rate, duration)
        phase == (frequency * i * duration * 10) \div num
        sine  == TruncDiv(amplitude * Sin1000(phase), 1000)
    IN  TruncDiv(sine * 32767, 1000)

\* sine_wave_int (line 34), its first count elements.
sine_wave_int_upto(sample_rate, duration, frequency, amplitude, count) ==
    [i \in 1..count |-> sample_int(sample_rate, duration, frequency, amplitude, i - 1)]

sine_wave_int(sample_rate, duration, frequency, amplitude) ==
    sine_wave_int_upto(sample_rate, duration, frequency, amplitude,
                       num_samples(sample_rate, duration))

\* np.concatenate((a, b)): what stacking rows instead of columns would give.
row_stack_flatten(a, b) == a \o b

\* np.column_stack((a, b)).flatten() (line 36): a[0], b[0], a[1], b[1], ...
column_stack_flatten(a, b) ==
    [k \in 1..(2 * Len(a)) |-> IF k % 2 = 1 THEN a[(k + 1) \div 2] ELSE b[k \div 2]]

generate_sine_wave(sample_rate, duration, frequency, amplitude) ==
    LET m == sine_wave_int(sample_rate, duration, frequency, amplitude)
    IN  column_stack_flatten(m, m)

\* The first MaxStored frames of generate_sine_wave's result: what the model of a
\* whole run keeps of a file's data.
generate_sine_wave_head(sample_rate, duration, frequency, amplitude) ==
    LET n == num_samples(sample_rate, duration)
        m == sine_wave_int_upto(sample_rate, duration, frequency, amplitude,
                                IF n < MaxStored THEN n ELSE MaxStored)
    IN  column_stack_flatten(m, m)

----------------------------------------------------------------------------
(* save_wav_file (lines 39-52).                                            *)

\* struct.pack('>h', val): the big-endian byte order.
struct_pack_be(val) == LET u == val % 65536 IN <<u \div 256, u % 256>>

\* struct.pack('<h', val) (line 51): two's complement, low byte first.
struct_pack_h(val) == LET u == val % 65536 IN <<u % 256, u \div 256>>

\* b''.join([struct.pack('<h', val) for val in data]) (line 51).
RECURSIVE wav_data(_)
wav_data(data) ==
    IF data = <<>> THEN <<>> ELSE struct_pack_h(Head(data)) \o wav_data(Tail(data))

\* A WAV file as a reader sees it: <<nchannels, sampwidth, framerate, datasize,
\* frames>>, the fields of the fmt chunk, the size of the data chunk in bytes and its
\* bytes.
nchannels(file) == file[1]
sampwidth(file) == file[2]
framerate(file) == file[3]
datasize(file) == file[4]
frames(file) == file[5]

\* A file of no bytes: what open(..., 'wb') leaves before anything is written.
EmptyFile == <<0, 0, 0, 0, <<>>>>

\* The WAV file that lines 47-52 leave for nvalues values of which `head` are kept:
\* the fmt chunk's fields, the data chunk's size in bytes and its bytes.
wav_image(sample_rate, nvalues, head) ==
    <<2, 2, sample_rate, 2 * nvalues, wav_data(head)>>

\* The file save_wav_file(filename, sample_rate, data) leaves at filename.
save_wav_file(sample_rate, data) == wav_image(sample_rate, Len(data), data)

----------------------------------------------------------------------------
(* main (lines 65-97): constants and naming.                               *)

\* The home directory os.path.expanduser puts in place of '~'.
Home == "/home/user"

\* get_default_output_dir (lines 54-63); line 61 is a raw string, its doubled
\* backslashes are part of the path.
get_default_output_dir(system) ==
    IF system = "Windows"
    THEN "C:\\\\SoundBanks\\\\IthacaPlayer\\\\instrument"
    ELSE Home \o "/Soundbank/IthacaPlayer/instrument"

\* Python's truth value of args.output_dir (line 74): None and '' are false.
Truthy(arg) == arg # <<>> /\ arg[1] # ""

\* output_dir as `args.output_dir is not None` would resolve it.
resolve_if_given(arg, system) ==
    IF arg # <<>> THEN arg[1] ELSE get_default_output_dir(system)

\* Line 74: args.output_dir if args.output_dir else get_default_output_dir().
resolve_output_dir(arg, system) ==
    IF Truthy(arg) THEN arg[1] ELSE get_default_output_dir(system)

\* The two rates in the other order.
sample_rates_swapped == <<48000, 44100>>

\* Line 77.
sample_rates == <<44100, 48000>>

\* A tag table that gives both rates the tag '44'.
rate_tags_same(sample_rate) == "44"

\* Line 78.
rate_tags(sample_rate) ==
    CASE sample_rate = 44100 -> "44"
      [] sample_rate = 48000 -> "48"

\* Line 79, in tenths of a second.
duration == 50

\* range(21, 22): a stop that ends the loop of line 82 after its first note.
LastNote_first == 22 - 1

\* range(21, 109) (line 82) and range(8) (line 86).
FirstNote == 21
LastNote == 108
LastVel == 7

Digit(d) ==
    CASE d = 0 -> "0" [] d = 1 -> "1" [] d = 2 -> "2" [] d = 3 -> "3" [] d = 4 -> "4"
      [] d = 5 -> "5" [] d = 6 -> "6" [] d = 7 -> "7" [] d = 8 -> "8" [] d = 9 -> "9"

\* Python's str(n) for n >= 0.
RECURSIVE Decimal(_)
Decimal(n) == IF n < 10 THEN Digit(n) ELSE Decimal(n \div 10) \o Digit(n % 10)

\* f'{n:03d}' for n >= 0: at least three digits, padded with zeros.
Format03d(n) ==
    IF n < 10 THEN "00" \o Digit(n)
    ELSE IF n < 100 THEN "0" \o Decimal(n)
    ELSE Decimal(n)

\* Line 84.
note_str(note) == "m" \o Format03d(note)

\* Line 93.
filename(note, v, sample_rate) ==
    note_str(note) \o "-vel" \o Decimal(v) \o "-f" \o rate_tags(sample_rate) \o ".wav"

\* Line 94: os.path.join(output_dir, filename).
path_join(dir, name) == <<dir, name>>

\* Line 89: the progress line, by its fields (note, velocity, level, frequency).
progress_line(note, v) == <<"Generuji", note_str(note), v, db_levels(v), midi_to_freq(note)>>

\* Line 97: the completion line, by its field.
completion_line(dir) == <<"dokonceno", dir>>

\* Lines 83, 87-88, 92 and 95 for one file: what save_wav_file writes.
file_image(note, v, sample_rate) ==
    wav_image(sample_rate, 2 * num_samples(sample_rate, duration),
              generate_sine_wave_head(sample_rate, duration, midi_to_freq(note),
                                      db_to_amp(db_levels(v))))

\* The header is out and no frame is: a file that a failed writeframes may leave.
header_only(sample_rate) ==
    wav_image(sample_rate, 2 * num_samples(sample_rate, duration), <<>>)

----------------------------------------------------------------------------
(* The file system.                                                        *)

NoFiles == <<>>

\* os.makedirs(dir, exist_ok=True) (line 75): the directory is there afterwards, and
\* one that was there keeps its files.
makedirs(files, dir) == IF dir \in DOMAIN files THEN files ELSE files @@ (dir :> NoFiles)

\* A directory keeps its entries in groups, one group for the names that begin with
\* the same four characters; a name is in one group only, so a directory is a map
\* from names to contents.
Stem(name) == IF Len(name) <= 4 THEN name ELSE SubSeq(name, 1, 4)

\* The directory that holds the files of `listing`, a map from names to contents.
Directory(listing) ==
    [s \in {Stem(n) : n \in DOMAIN listing} |->
        [n \in {m \in DOMAIN listing : Stem(m) = s} |-> listing[n]]]

\* The names of the files of a directory.
names_in(dirfiles) == UNION {DOMAIN dirfiles[s] : s \in DOMAIN dirfiles}

has_file(files, path) ==
    /\ path[1] \in DOMAIN files
    /\ Stem(path[2]) \in DOMAIN files[path[1]]
    /\ path[2] \in DOMAIN files[path[1]][Stem(path[2])]

file_at(files, path) == files[path[1]][Stem(path[2])][path[2]]

\* The directory with the file `name` given the content `content`, created if it is
\* not there.
put_in_dir(dirfiles, name, content) ==
    IF Stem(name) \in DOMAIN dirfiles
    THEN [dirfiles EXCEPT ![Stem(name)] =
             IF name \in DOMAIN @ THEN [@ EXCEPT ![name] = content]
             ELSE @ @@ (name :> content)]
    ELSE dirfiles @@ (Stem(name) :> (name :> content))

\* The file at path is given the content `content`, created if it is not there.
put_file(files, path, content) ==
    [files EXCEPT ![path[1]] = put_in_dir(@, path[2], content)]

\* The directory of path is emptied first, then the file is created.
wipe_and_open(files, path) ==
    [files EXCEPT ![path[1]] = put_in_dir(NoFiles, path[2], EmptyFile)]

\* open(filename, 'ab'): the file is created, or kept as it is.
open_append(files, path) ==
    IF has_file(files, path) THEN files ELSE put_file(files, path, EmptyFile)

\* wave.open(filename, 'wb') (line 46): the file is created or truncated.
wave_open(files, path) == put_file(files, path, EmptyFile)

\* A close that leaves the file open.
wave_close_leak(handles, path) == handles

\* Wave_write.close, reached by the with statement's exit on every way out.
wave_close(handles, path) == handles \ {path}

\* writeframes onto the open file: a header when the file has none, then the frames
\* after what the file holds.
write_frames(old, image) ==
    IF old = EmptyFile THEN image
    ELSE <<nchannels(old), sampwidth(old), framerate(old),
           datasize(old) + datasize(image), frames(old) \o frames(image)>>

OutArg == "out"

\* A file of some other program.
Foreign == <<1, 1, 8000, 1, <<7>>>>

\* The file system the program is started on.  The directory OutArg holds a foreign
\* file and two files under generated names with other content (one of them of no
\* bytes); a file under a generated name lies in another directory; the Windows
\* default directory exists and is empty; the default directory under Home does
\* not exist.
InitialFiles ==
    (OutArg :> Directory(("notes.txt" :> Foreign)
                         @@ ("m021-vel0-f44.wav" :> Foreign)
                         @@ ("m108-vel7-f48.wav" :> EmptyFile)))
    @@ ("other" :> Directory("m021-vel0-f44.wav" :> Foreign))
    @@ (get_default_output_dir("Windows") :> NoFiles)

\* The unit calls of save_wav_file and generate_sine_wave are not part of a run.
UnitIdle == wav_in = <<>> /\ wav_out = <<>> /\ sine_in = <<>> /\ sine_out = <<>>

Init ==
    /\ args_output_dir \in {<<>>, <<"">>, <<OutArg>>}
    /\ platform_system \in {"Windows", "Linux"}
    /\ fs = InitialFiles
    /\ pc = "parse"
    /\ output_dir = ""
    /\ midi_note = FirstNote
    /\ vel = 0
    /\ rate_idx = 1
    /\ filepath = <<>>
    /\ open_files = {}
    /\ num_opened = 0
    /\ stdout = <<>>
    /\ runs = 0
    /\ UnitIdle

----------------------------------------------------------------------------
(* main, step by step.                                                     *)

\* An OSError met in main is caught and the file is tried again.
retry_after_failure == "open"

\* An OSError met in main is caught nowhere (no try statement in lines 65-97): it
\* leaves main, and the interpreter ends the process.
after_failure == "aborted"

\* Lines 70-74.
ParseArgs ==
    /\ pc = "parse"
    /\ output_dir' = resolve_output_dir(args_output_dir, platform_system)
    /\ pc' = "makedirs"
    /\ UNCHANGED <<args_output_dir, platform_system, fs, midi_note, vel, rate_idx,
                   filepath, open_files, num_opened, stdout, runs, unitVars>>

\* Line 75, and the entry into the loops of lines 82 and 86.
MakeDirs ==
    /\ pc = "makedirs"
    /\ fs' = makedirs(fs, output_dir)
    /\ midi_note' = FirstNote
    /\ vel' = 0
    /\ pc' = "print"
    /\ UNCHANGED <<args_output_dir, platform_system, output_dir, rate_idx, filepath,
                   open_files, num_opened, stdout, runs, unitVars>>

\* Line 75 raising OSError.
MakeDirsFail ==
    /\ pc = "makedirs"
    /\ pc' = "aborted"
    /\ UNCHANGED <<args_output_dir, platform_system, fs, output_dir, midi_note, vel,
                   rate_idx, filepath, open_files, num_opened, stdout, runs, unitVars>>

\* Lines 87-89, and the entry into the loop of line 91.
PrintProgress ==
    /\ pc = "print"
    /\ stdout' = Append(stdout, progress_line(midi_note, vel))
    /\ rate_idx' = 1
    /\ pc' = "open"
    /\ UNCHANGED <<args_output_dir, platform_system, fs, output_dir, midi_note, vel,
                   filepath, open_files, num_opened, runs, unitVars>>

\* Lines 92-94 and save_wav_file's line 46, the open succeeding.
OpenWav ==
    /\ pc = "open"
    /\ LET path == path_join(output_dir, filename(midi_note, vel, sample_rates[rate_idx]))
       IN  /\ filepath' = path
           /\ fs' = wave_open(fs, path)
           /\ open_files' = open_files \cup {path}
           /\ num_opened' = num_opened + 1
    /\ pc' = "write"
    /\ UNCHANGED <<args_output_dir, platform_system, output_dir, midi_note, vel,
                   rate_idx, stdout, runs, unitVars>>

\* Line 46 raising OSError: no file is opened.
OpenFail ==
    /\ pc = "open"
    /\ filepath' = path_join(output_dir, filename(midi_note, vel, sample_rates[rate_idx]))
    /\ pc' = after_failure
    /\ UNCHANGED <<args_output_dir, platform_system, fs, output_dir, midi_note, vel,
                   rate_idx, open_files, num_opened, stdout, runs, unitVars>>

\* Lines 47-52.
WriteFrames ==
    /\ pc = "write"
    /\ fs' = put_file(fs, filepath,
                      write_frames(file_at(fs, filepath),
                                   file_image(midi_note, vel, sample_rates[rate_idx])))
    /\ pc' = "close"
    /\ UNCHANGED <<args_output_dir, platform_system, output_dir, midi_note, vel,
                   rate_idx, filepath, open_files, num_opened, stdout, runs, unitVars>>

\* Line 52 raising OSError: the file is left as it was opened or with its header only,
\* and the with statement is left by the exception.
WriteFail ==
    /\ pc = "write"
    /\ \E left \in {file_at(fs, filepath), header_only(sample_rates[rate_idx])} :
           fs' = put_file(fs, filepath, left)
    /\ pc' = "unwind"
    /\ UNCHANGED <<args_output_dir, platform_system, output_dir, midi_note, vel,
                   rate_idx, filepath, open_files, num_opened, stdout, runs, unitVars>>

\* The with statement's exit after an exception: Wave_write.close closes the file,
\* and the exception goes on.
Unwind ==
    /\ pc = "unwind"
    /\ open_files' = wave_close(open_files, filepath)
    /\ pc' = after_failure
    /\ UNCHANGED <<args_output_dir, platform_system, fs, output_dir, midi_note, vel,
                   rate_idx, filepath, num_opened, stdout, runs, unitVars>>

\* The with statement's exit (line 52's end), then the loop headers of lines 91, 86
\* and 82: the next sample rate, else the next velocity, else the next note.
CloseWav ==
    /\ pc = "close"
    /\ open_files' = wave_close(open_files, filepath)
    /\ IF rate_idx < Len(sample_rates)
       THEN /\ rate_idx' = rate_idx + 1
            /\ pc' = "open"
            /\ UNCHANGED <<vel, midi_note>>
       ELSE IF vel < LastVel
       THEN /\ vel' = vel + 1
            /\ pc' = "print"
            /\ UNCHANGED <<rate_idx, midi_note>>
       ELSE IF midi_note < LastNote
       THEN /\ midi_note' = midi_note + 1
            /\ vel' = 0
            /\ pc' = "print"
            /\ UNCHANGED rate_idx
       ELSE /\ pc' = "complete"
            /\ UNCHANGED <<rate_idx, vel, midi_note>>
    /\ UNCHANGED <<args_output_dir, platform_system, fs, output_dir, filepath, num_opened,
                   stdout, runs, unitVars>>

\* Wave_write.close raising OSError (its flush): the file is closed all the same.
CloseFail ==
    /\ pc = "close"
    /\ open_files' = wave_close(open_files, filepath)
    /\ pc' = after_failure
    /\ UNCHANGED <<args_output_dir, platform_system, fs, output_dir, midi_note, vel,
                   rate_idx, filepath, num_opened, stdout, runs, unitVars>>

\* Line 97.
Complete ==
    /\ pc = "complete"
    /\ stdout' = Append(stdout, completion_line(output_dir))
    /\ pc' = "done"
    /\ UNCHANGED <<args_output_dir, platform_system, fs, output_dir, midi_note, vel,
                   rate_idx, filepath, open_files, num_opened, runs, unitVars>>

\* The program is started again, with the same arguments, on the file system a
\* completed run left (line 100 of a new process).
Rerun ==
    /\ pc = "done"
    /\ runs + 1 < MaxRuns
    /\ runs' = runs + 1
    /\ pc' = "parse"
    /\ output_dir' = ""
    /\ midi_note' = FirstNote
    /\ vel' = 0
    /\ rate_idx' = 1
    /\ filepath' = <<>>
    /\ num_opened' = 0
    /\ stdout' = <<>>
    /\ UNCHANGED <<args_output_dir, platform_system, fs, open_files, unitVars>>

Step ==
    \/ ParseArgs
    \/ MakeDirs
    \/ MakeDirsFail
    \/ PrintProgress
    \/ OpenWav
    \/ OpenFail
    \/ WriteFrames
    \/ WriteFail
    \/ Unwind
    \/ CloseWav
    \/ CloseFail
    \/ Complete

\* One invocation of the program, from any of the command lines and platforms.
Next == Step

Spec == Init /\ [][Next]_vars

\* Termination is checked from one command line: the flag absent, on Linux.
LiveInit == Init /\ platform_system = "Linux" /\ args_output_dir = <<>>

\* The interpreter runs main to its end or to an exception: no step waits.
LiveSpec == LiveInit /\ [][Next]_vars /\ WF_vars(Step)

\* Invocations one after another against the same output directory, OutArg, which
\* holds files before the first.
InitTwice == Init /\ platform_system = "Linux" /\ args_output_dir = <<OutArg>>

NextTwice == Step \/ Rerun

SpecTwice == InitTwice /\ [][NextTwice]_vars

----------------------------------------------------------------------------
(* save_wav_file and generate_sine_wave called alone, outside a run of     *)
(* main: the caller's arguments are drawn at the start, the call is one    *)
(* step.                                                                   *)

\* main is not running.
MainIdle ==
    /\ args_output_dir = <<>>
    /\ platform_system = "Linux"
    /\ fs = InitialFiles
    /\ pc = "idle"
    /\ output_dir = ""
    /\ midi_note = FirstNote
    /\ vel = 0
    /\ rate_idx = 1
    /\ filepath = <<>>
    /\ open_files = {}
    /\ num_opened = 0
    /\ stdout = <<>>
    /\ runs = 0

\* The sample rates and the int16 values save_wav_file is called with: the extremes,
\* the values around zero, and values whose two bytes differ.
WavRates == {8000, 44100, 48000}
Int16Samples == {-32768, -2, 0, 256, 32767}
WavData == UNION {[1..n -> Int16Samples] : n \in 0..MaxDataLen}

WavInit ==
    /\ MainIdle
    /\ wav_in \in [sample_rate : WavRates, data : WavData]
    /\ wav_out = <<>>
    /\ sine_in = <<>>
    /\ sine_out = <<>>

\* save_wav_file(filename, sample_rate, data) (lines 39-52), the file it leaves.
CallSaveWav ==
    /\ pc = "idle"
    /\ wav_in # <<>>
    /\ wav_out = <<>>
    /\ wav_out' = <<save_wav_file(wav_in.sample_rate, wav_in.data)>>
    /\ UNCHANGED <<mainVars, wav_in, sine_in, sine_out>>

NextWav == CallSaveWav

SpecWav == WavInit /\ [][NextWav]_vars

\* The arguments generate_sine_wave is called with: sample rates small enough for
\* the whole result to be kept, durations from 0 to MaxTenths tenths of a second
\* (products with and without a fractional part), three frequencies, three
\* amplitudes.
SineRates == {1, 4, 8, 15}
SineFrequencies == {5, 10, 25}
SineAmplitudes == {0, 500, 1000}

SineInit ==
    /\ MainIdle
    /\ sine_in \in [sample_rate : SineRates, duration : 0..MaxTenths,
                    frequency : SineFrequencies, amplitude : SineAmplitudes]
    /\ sine_out = <<>>
    /\ wav_in = <<>>
    /\ wav_out = <<>>

\* generate_sine_wave(frequency, duration, sample_rate, amplitude) (lines 22-37).
CallSine ==
    /\ pc = "idle"
    /\ sine_in # <<>>
    /\ sine_out = <<>>
    /\ sine_out' = <<generate_sine_wave(sine_in.sample_rate, sine_in.duration,
                                        sine_in.frequency, sine_in.amplitude)>>
    /\ UNCHANGED <<mainVars, wav_in, wav_out, sine_in>>

NextSine == CallSine

SpecSine == SineInit /\ [][NextSine]_vars

----------------------------------------------------------------------------
(* The enumeration of the bank, as the specification states it: notes 21..108, *)
(* tiers 0..7, rates 44100 then 48000; the k-th file for k in 1..NumFiles.     *)

NumFiles == 88 * 8 * 2

NthNote(k) == 21 + ((k - 1) \div 16)
NthTier(k) == ((k - 1) \div 2) % 8
NthRate(k) == IF (k - 1) % 2 = 0 THEN 44100 ELSE 48000
NthPair(k) == (k + 1) \div 2

NameTable == [k \in 1..NumFiles |-> filename(NthNote(k), NthTier(k), NthRate(k))]
ImageTable == [k \in 1..NumFiles |-> file_image(NthNote(k), NthTier(k), NthRate(k))]
GeneratedNames == {NameTable[k] : k \in 1..NumFiles}

\* The files of a directory, none for a directory that does not exist.
FilesOf(files, dir) == IF dir \in DOMAIN files THEN files[dir] ELSE NoFiles

\* The position in the enumeration of the file main is at.
CurrentIndex == (midi_note - 21) * 16 + vel * 2 + rate_idx

\* The directory with the file `name` blanked, created if it is not there.
Blanked(dirfiles, name) == put_in_dir(dirfiles, name, EmptyFile)

\* The file `name` of the output directory.
Generated(name) == file_at(fs, <<output_dir, name>>)

\* The names of the files of the output directory.
OutputNames == names_in(FilesOf(fs, output_dir))

\* The step removes no directory and no file, and leaves the content of every file
\* but the one at path as it was.
OthersKept(path) ==
    \/ fs' = fs
    \/ /\ DOMAIN fs \subseteq DOMAIN fs'
       /\ \A d \in DOMAIN fs' :
              IF path # <<>> /\ d = path[1]
              THEN Blanked(fs'[d], path[2]) = Blanked(FilesOf(fs, d), path[2])
              ELSE fs'[d] = FilesOf(fs, d)

\* The step changes some directory's files.
FilesChange == \E d \in DOMAIN fs' : fs'[d] # FilesOf(fs, d)

WasEmptyAtStart(dir) == FilesOf(InitialFiles, dir) = NoFiles

\* The file that was opened last in this run is written and closed.
LastIsClosed == num_opened > 0 /\ pc \in {"open", "print", "complete", "done"}

----------------------------------------------------------------------------
\* C1: in a run that started on an empty output directory, every file opened is a
\* new file of the directory (none goes under a name already used), and after the
\* run, if it met no failure, the directory holds exactly 1408 files; the names of
\* the 88 * 8 * 2 triples are pairwise different, and each triple's file is there
\* with that triple's content.
C1_FullRunWritesEveryFile ==
    /\ (pc \notin {"parse", "makedirs"} /\ WasEmptyAtStart(output_dir)) =>
           Cardinality(OutputNames) = num_opened
    /\ (pc = "done" /\ WasEmptyAtStart(output_dir)) =>
        /\ Cardinality(OutputNames) = 1408
        /\ Cardinality({filename(n, v, r) : n \in 21..108, v \in 0..7,
                                             r \in {44100, 48000}}) = 1408
        /\ \A n \in 21..108, v \in 0..7, r \in {44100, 48000} :
               /\ filename(n, v, r) \in OutputNames
               /\ Generated(filename(n, v, r)) = file_image(n, v, r)

C1_Witness ==
    /\ pc = "done"
    /\ WasEmptyAtStart(output_dir)
    /\ Cardinality(OutputNames) = 1408
    /\ "m069-vel7-f44.wav" \in OutputNames

\* The 1408 files of the bank, by name, and the file system a completed run on the
\* directory dir leaves: the initial one with the bank put into dir.
GeneratedFiles == [name \in GeneratedNames |->
                      ImageTable[CHOOSE k \in 1..NumFiles : NameTable[k] = name]]

FinalFiles(dir) ==
    [d \in DOMAIN InitialFiles \cup {dir} |->
        IF d = dir
        THEN LET old == FilesOf(InitialFiles, d)
             IN  Directory(GeneratedFiles
                           @@ [n \in names_in(old) |-> file_at(InitialFiles, <<d, n>>)])
        ELSE InitialFiles[d]]

\* C2: every completed run, the first and the one after it, leaves each generated
\* file with the same content, that of its triple, whatever the directory held
\* before the first run; a file has that content from the moment it is written
\* and closed; and the whole file system after the second run is what it was
\* after the first: the initial one with the 1408 files put in the output directory.
C2_SecondRunChangesNothing ==
    /\ LastIsClosed =>
           Generated(filepath[2]) = ImageTable[num_opened]
    /\ pc = "done" => fs = FinalFiles(output_dir)

C2_Witness ==
    /\ runs = 1
    /\ pc = "done"
    /\ fs = FinalFiles(OutArg)
    /\ file_at(InitialFiles, <<OutArg, "m021-vel0-f44.wav">>) = Foreign
    /\ file_at(fs, <<OutArg, "m021-vel0-f44.wav">>) = file_image(21, 0, 44100)

\* C3: a failure at the N-th file ends the run there.  The failing step goes to the
\* end of the process (after a failed write, through the with statement's exit
\* only), opens nothing and prints nothing; no step follows the end of the process,
\* so no later file is written, nothing is retried and no completion line comes;
\* every step of the run leaves all files but the current one as they were, and at
\* the failure the file before the N-th holds its complete content.
C3_FailureAbortsRun ==
    [][ /\ pc # "aborted"
        /\ OthersKept(filepath')
        /\ (OpenFail \/ CloseFail \/ Unwind) => pc' = "aborted"
        /\ WriteFail => pc' = "unwind"
        /\ (OpenFail \/ WriteFail \/ CloseFail \/ Unwind) =>
              /\ num_opened' = num_opened
              /\ stdout' = stdout
              /\ stdout[Len(stdout)][1] = "Generuji"
              /\ filepath' = <<output_dir, NameTable[CurrentIndex]>>
              /\ num_opened \in {CurrentIndex - 1, CurrentIndex}
              /\ CurrentIndex > 1 =>
                    file_at(fs', <<output_dir, NameTable[CurrentIndex - 1]>>)
                        = ImageTable[CurrentIndex - 1]
      ]_vars

C3_Witness ==
    /\ pc = "aborted"
    /\ filepath = <<output_dir, "m021-vel1-f48.wav">>
    /\ has_file(fs, filepath)
    /\ frames(file_at(fs, filepath)) = <<>>
    /\ Generated("m021-vel1-f44.wav") = file_image(21, 1, 44100)
    /\ "m021-vel2-f44.wav" \notin OutputNames

\* C4 as claimed: whenever --output-dir is supplied, its value is the output
\* directory, and the default is used only when the flag is absent.
C4_AsClaimed ==
    pc # "parse" =>
        /\ args_output_dir # <<>> => output_dir = args_output_dir[1]
        /\ args_output_dir = <<>> => output_dir = get_default_output_dir(platform_system)

\* C4, amended: the output directory is the value of --output-dir when the flag is
\* supplied with a non-empty value, and the platform's default directory when the
\* flag is absent or its value is the empty string; every file of the run is opened
\* under that directory, and no step changes the files of another directory.
C4_OutputDirResolved ==
    /\ [](pc # "parse" =>
            /\ (args_output_dir # <<>> /\ args_output_dir[1] # "")
                   => output_dir = args_output_dir[1]
            /\ (args_output_dir = <<>> \/ args_output_dir = <<"">>)
                   => output_dir = (IF platform_system = "Windows"
                                    THEN get_default_output_dir("Windows")
                                    ELSE get_default_output_dir("Linux"))
            /\ filepath # <<>> => filepath[1] = output_dir
            /\ open_files \subseteq {filepath})
    /\ [][\A d \in DOMAIN fs : d # output_dir' => (d \in DOMAIN fs' /\ fs'[d] = fs[d])]_vars

C4_Witness ==
    /\ pc = "close"
    /\ args_output_dir = <<"">>
    /\ output_dir = get_default_output_dir("Windows")
    /\ num_opened = 2
    /\ Generated("m021-vel0-f48.wav") = file_image(21, 0, 48000)

\* C7: the files are opened in the order of the enumeration (note, then tier, then
\* 44100 Hz before 48000 Hz), each after the one before it was written and closed;
\* the progress lines come in the order of the (note, tier) pairs, one per pair, each
\* when all files of the earlier pairs are written and closed and none of its own
\* pair is opened; and a file is opened only with its pair's progress line as the
\* last line printed.
C7_OrderOfEvents ==
    [][ /\ num_opened' # num_opened =>
              LET k == num_opened + 1
              IN  /\ num_opened' = k
                  /\ filepath' = <<output_dir, NameTable[k]>>
                  /\ Len(stdout) = NthPair(k)
                  /\ stdout' = stdout
                  /\ stdout[Len(stdout)] = progress_line(NthNote(k), NthTier(k))
                  /\ open_files = {}
                  /\ k > 1 => Generated(NameTable[k - 1]) = ImageTable[k - 1]
        /\ (stdout' # stdout /\ pc' # "done") =>
              LET j == Len(stdout) + 1
              IN  /\ stdout' = Append(stdout,
                                      progress_line(NthNote(2 * j - 1), NthTier(2 * j - 1)))
                  /\ num_opened = 2 * (j - 1)
                  /\ num_opened' = num_opened
                  /\ open_files = {}
                  /\ j > 1 => Generated(NameTable[2 * (j - 1)])
                                  = ImageTable[2 * (j - 1)]
      ]_vars

C7_Witness ==
    /\ pc = "write"
    /\ filepath = <<output_dir, "m021-vel1-f48.wav">>
    /\ num_opened = 4
    /\ Generated("m021-vel1-f44.wav") = file_image(21, 1, 44100)
    /\ stdout[Len(stdout)] = progress_line(21, 1)
    /\ Len(stdout) = 2

\* C8: a run that meets no failure ends: every run reaches its completion or its
\* abort, and only a failing step (of makedirs, open, writeframes or close) leads to
\* the abort; at its end all 1408 files are written and closed, and the
\* completion line is the last of 705 lines, the 704 before it progress lines;
\* the completion line is the last line printed only in a completed run, and no step
\* follows it.
C8_CompletionIsLast ==
    /\ [](pc = "done" =>
            /\ num_opened = 1408
            /\ open_files = {}
            /\ \A k \in 1..1408 :
                   /\ NameTable[k] \in OutputNames
                   /\ Generated(NameTable[k]) = ImageTable[k]
            /\ Len(stdout) = 704 + 1
            /\ stdout[Len(stdout)] = completion_line(output_dir)
            /\ \A i \in 1..704 : stdout[i][1] = "Generuji")
    /\ []((stdout # <<>> /\ stdout[Len(stdout)][1] = "dokonceno") => pc = "done")
    /\ [][pc # "done"]_vars
    /\ [][pc' = "aborted" => (MakeDirsFail \/ OpenFail \/ CloseFail \/ Unwind)]_vars
    /\ [][pc' = "unwind" => WriteFail]_vars
    /\ <>(pc = "done" \/ pc = "aborted")

C8_Witness ==
    /\ pc = "done"
    /\ Len(stdout) = 705
    /\ stdout[705] = completion_line(output_dir)
    /\ stdout[704] = progress_line(108, 7)
    /\ Generated("m108-vel7-f48.wav") = file_image(108, 7, 48000)

\* C9: at most one file is open for writing at any point, and only between its open
\* and the end of its with statement; when a file is opened no other is open, also
\* after a failure no file stays open; and no path is opened twice in a run.
C9_OneWriterAtATime ==
    /\ [](/\ Cardinality(open_files) <= 1
          /\ open_files # {} => (open_files = {filepath} /\ pc \in {"write", "close", "unwind"})
          /\ pc \in {"write", "close", "unwind"} => open_files = {filepath}
          /\ pc \in {"aborted", "done"} => open_files = {})
    /\ [][num_opened' # num_opened =>
              /\ open_files = {}
              /\ open_files' = {filepath'}
              /\ filepath'[2] = NameTable[num_opened + 1]
              /\ \A i \in 1..num_opened : NameTable[i] # filepath'[2]
          ]_vars

C9_Witness ==
    /\ pc = "aborted"
    /\ num_opened = 4
    /\ file_at(fs, filepath) = header_only(48000)
    /\ open_files = {}

\* C10: a step of a run removes no file, and creates or changes no file but the one
\* it is at, which lies in the output directory under one of the 1408 generated
\* names; every other file stays, with its content.
C10_OnlyGeneratedFilesTouched ==
    [][ /\ OthersKept(filepath')
        /\ FilesChange =>
              /\ filepath'[1] = output_dir
              /\ filepath'[2] \in GeneratedNames
      ]_vars

C10_Witness ==
    /\ pc = "aborted"
    /\ output_dir = OutArg
    /\ num_opened = 2
    /\ file_at(fs, <<OutArg, "notes.txt">>) = Foreign
    /\ file_at(fs, <<OutArg, "m108-vel7-f48.wav">>) = EmptyFile
    /\ file_at(fs, <<"other", "m021-vel0-f44.wav">>) = Foreign
    /\ file_at(fs, <<OutArg, "m021-vel0-f44.wav">>) = file_image(21, 0, 44100)

\* A reader's view of the data: consecutive little-endian signed 16-bit integers.
int16_le(lo, hi) == LET u == lo + 256 * hi IN IF u >= 32768 THEN u - 65536 ELSE u

decode_le16(bytes) ==
    [i \in 1..(Len(bytes) \div 2) |-> int16_le(bytes[2 * i - 1], bytes[2 * i])]

\* C5: for every sample rate and every sequence of int16 values of even length, the
\* file save_wav_file writes declares 2 channels, a sample width of 2 bytes and the
\* given rate; its data are two bytes per value, and read as consecutive
\* little-endian signed 16-bit integers they are the input sequence, value for
\* value, in order and of the same length.
C5_SaveWavRoundTrip ==
    (wav_out # <<>> /\ Len(wav_in.data) % 2 = 0) =>
        LET file == wav_out[1]
        IN  /\ nchannels(file) = 2
            /\ sampwidth(file) = 2
            /\ framerate(file) = wav_in.sample_rate
            /\ datasize(file) = 2 * Len(wav_in.data)
            /\ Len(frames(file)) = 2 * Len(wav_in.data)
            /\ \A i \in DOMAIN frames(file) : frames(file)[i] \in 0..255
            /\ decode_le16(frames(file)) = wav_in.data

C5_Witness ==
    /\ wav_out # <<>>
    /\ wav_in.sample_rate = 48000
    /\ wav_in.data = <<-32768, 256, -2, 32767>>
    /\ frames(wav_out[1]) = <<0, 128, 0, 1, 254, 255, 255, 127>>

\* C6: for every sample rate, duration, frequency and amplitude, generate_sine_wave
\* returns 2 * floor(sample_rate * duration) values, and for every i the values at
\* 2i and 2i + 1 (counted from 0) both are the i-th mono sample; for the duration
\* of 5.0 s that main uses, these are 441000 values at 44100 Hz and 480000 values at
\* 48000 Hz.
C6_StereoInterleave ==
    /\ sine_out # <<>> =>
        LET out  == sine_out[1]
            n    == (sine_in.sample_rate * sine_in.duration) \div 10
            mono == sine_wave_int(sine_in.sample_rate, sine_in.duration,
                                  sine_in.frequency, sine_in.amplitude)
        IN  /\ Len(out) = 2 * n
            /\ Len(mono) = n
            /\ \A i \in 0..(n - 1) :
                   /\ out[2 * i + 1] = mono[i + 1]
                   /\ out[2 * i + 2] = mono[i + 1]
    /\ duration = 50
    /\ 2 * num_samples(44100, duration) = 441000
    /\ 2 * num_samples(48000, duration) = 480000

C6_Witness ==
    /\ sine_out # <<>>
    /\ sine_in.sample_rate = 8
    /\ sine_in.duration = 12
    /\ sine_in.amplitude = 1000
    /\ Len(sine_out[1]) = 18
    /\ sine_out[1][3] # 0
    /\ sine_out[1][3] = sine_out[1][4]
    /\ sine_out[1][3] # sine_out[1][5]

====
